---- MODULE Spec2Model ----
(***************************************************************************)
(* export_demucs_v4_pytorch_onnx.py: load htdemucs_6s, wrap it so that the  *)
(* STFT (_spec) runs inside the traced graph, export the wrapper to ONNX    *)
(* and report the size of the file.  The script is the module top level;    *)
(* the library calls (get_model, _spec, the model's forward, the exporter's *)
(* graph conversion and file write) return or raise, chosen by \E.          *)
(* A run is one execution of the script; the file system outlives a run.    *)
(***************************************************************************)
EXTENDS Integers, Sequences, FiniteSets, TLC

\* ---- bounds of the model ------------------------------------------------
MaxRuns     == 3    \* consecutive executions of the script
MaxModels   == 2    \* constituent models of the ensemble get_model returns
MaxVersion  == 2    \* versions of the pretrained weights the registry serves
MaxWave     == 2    \* distinct values torch.randn can give the dummy input
MaxCount    == 2    \* the per-run step counters saturate here

\* ---- constants of the script --------------------------------------------
name          == "htdemucs_6s"
segment       == 343980
output_file_other == "demucsv4.onnx"
output_file   == "htdemucs_6s_waveform.onnx"
opset_version == 17
input_names   == <<"input">>
output_names  == <<"output">>
dynamic_axes  == [input |-> {0, 2}, output |-> {0, 3}]

\* the other path the script's messages mention; the script never writes it
Paths == {"htdemucs_6s_waveform.onnx", "demucsv4.onnx"}

Devices   == {"cpu", "cuda"}
Waveforms == 0..MaxWave
Versions  == 1..MaxVersion

\* optional values: <<>> is an unbound name / an absent file, <<v>> a bound one
Unbound  == <<>>
Bound(v) == <<v>>

VARIABLES
  run,            \* number of the current execution of the script
  pc,             \* the statement the script is at
  exit,           \* the process's exit status: -1 while running
  exc,            \* the exception that left the script, if any
  fs,             \* the file system: path -> absent or a file
  fs_at_start,    \* the file system as it was when this run started
  wrapper_bag,    \* wrapper_bag.models: the ensemble's model objects
  real_model,     \* the model object real_model names (index in the bag, 0 unbound)
  wrapped_model,  \* the WaveformOnlyWrapper instance
  dummy_input,    \* the traced input
  z,              \* forward's local z
  fwd_ret,        \* what forward returned to the exporter
  graph,          \* the ONNX graph the exporter built from the trace
  size_mb,        \* what line 116 computed
  stdout,         \* the lines printed by this run
  calls,          \* the calls made on the wrapped model, in order
  completed,      \* which stages of this run have completed
  failed_at,      \* the stage whose error ended the run, "" if none
  count           \* per run: how often each stage was entered

vars == <<run, pc, exit, exc, fs, fs_at_start, wrapper_bag, real_model,
          wrapped_model, dummy_input, z, fwd_ret, graph, size_mb, stdout,
          calls, completed, failed_at, count>>

Stages == {"load", "wrap", "trace", "write", "report"}

Bump(c, stage) == [c EXCEPT ![stage] = IF @ < MaxCount THEN @ + 1 ELSE @]

\* ---- the libraries, as far as the script uses them -----------------------

\* get_model(name): the ensembles the registry can return.  Every constituent
\* model carries the served weights; device and mode are the library's choice.
get_model(n) ==
  { bag \in UNION { [1..k -> [id : 1..MaxModels, device : Devices,
                               training : BOOLEAN, weights : Versions]]
                    : k \in 1..MaxModels } :
      /\ \A i \in DOMAIN bag : bag[i].id = i
      /\ \A i, j \in DOMAIN bag : /\ bag[i].weights = bag[j].weights
                                  /\ bag[i].device = bag[j].device
                                  /\ bag[i].training = bag[j].training }

LoadErrors    == {"UnknownModel", "WeightsUnavailable"}
ForwardErrors == {"RuntimeError"}
ConvertErrors == {"UnsupportedOperatorError", "MemoryError"}
WriteErrors   == {"OSError"}

\* nn.Module.cpu() and nn.Module.eval(): in place, parameters' values kept
cpu(m)        == [m EXCEPT !.device = "cpu"]
eval(m)       == [m EXCEPT !.training = FALSE]

\* model._spec(x) and model(mix, z): functions of the weights and the
\* arguments, one value per distinct (model, arguments)
model_spec(m, x)    == 1000 + 100 * m.id + 10 * m.weights + x.data
model_call(m, x, s) == 10000 * (100 * m.id + 10 * m.weights + x.data) + s

\* torch.randn(1, 2, segment): a tensor of that shape with values of its choice
randn(a, b, c) == { [shape |-> <<a, b, c>>, data |-> w] : w \in Waveforms }

\* ---- the script ---------------------------------------------------------

\* line 59: wrapper_bag.models[0]
first_model_last(bag) == Len(bag)
first_model(bag)      == 1

\* lines 78-80: __init__ keeps the reference and nothing else
WaveformOnlyWrapper_extra(model) == [model |-> model, z |-> 0]
WaveformOnlyWrapper(model)       == [model |-> model]

\* line 84 and line 85
forward_z(self, input_waveform) ==
  model_spec(wrapper_bag[self.model], input_waveform)
forward_ret_zeroed(self, input_waveform, s) ==
  model_call(wrapper_bag[self.model], [input_waveform EXCEPT !.data = 0], s)
forward_ret(self, input_waveform, s) ==
  model_call(wrapper_bag[self.model], input_waveform, s)

\* forward has no try/except: what the callee raised is what the caller gets
forward_raise_translated(e) == "WrapperError"
forward_raise(e)            == e

\* the module top level has no try/except: an error ends the run where it is
uncaught_retry(at)    == IF at = "load" THEN "load" ELSE "aborted"
uncaught_continue(at) == IF at = "trace" THEN "getsize" ELSE "aborted"
uncaught(at)          == "aborted"

\* the graph torch.onnx.export serialises (export_params=True)
onnx_graph(ret, m) ==
  [opset_version |-> opset_version, input_names |-> input_names,
   output_names |-> output_names, dynamic_axes |-> dynamic_axes,
   params |-> m.weights, output |-> ret]

FileBytes == 251658240       \* "~240MB"
File(writer, g, complete) ==
  [writer |-> writer, graph |-> g, complete |-> complete,
   bytes |-> IF complete THEN FileBytes ELSE FileBytes \div 2]

\* a file left at the output path by something earlier than the first run
OldFile == File(0, onnx_graph(0, [weights |-> 0]), TRUE)

\* line 116-117: size / 1024 / 1024 printed with {:.0f}
MB(bytes) == (bytes + 524288) \div 1048576

Say(text) == Append(stdout, text)

Raise(at, stage, e) ==
  /\ pc' = uncaught(at)
  /\ exit' = IF uncaught(at) = "aborted" THEN 1 ELSE exit
  /\ exc' = Bound(e)
  /\ failed_at' = stage

NoCount == [s \in Stages |-> 0]

Init ==
  /\ run = 1
  /\ pc = "load"
  /\ exit = -1
  /\ exc = Unbound
  /\ fs \in { [p \in Paths |-> IF p = output_file THEN f ELSE Unbound]
              : f \in {Unbound, Bound(OldFile)} }
  /\ fs_at_start = fs
  /\ wrapper_bag = Unbound
  /\ real_model = 0
  /\ wrapped_model = Unbound
  /\ dummy_input = Unbound
  /\ z = Unbound
  /\ fwd_ret = Unbound
  /\ graph = Unbound
  /\ size_mb = Unbound
  /\ stdout = <<>>
  /\ calls = <<>>
  /\ completed = {}
  /\ failed_at = ""
  /\ count = NoCount

\* lines 56-58, get_model returns
LoadOk ==
  /\ pc = "load"
  /\ \E bag \in get_model(name) : wrapper_bag' = bag
  /\ stdout' = Say("Loading")
  /\ count' = Bump(count, "load")
  /\ pc' = "select"
  /\ UNCHANGED <<run, exit, exc, fs, fs_at_start, real_model, wrapped_model,
                 dummy_input, z, fwd_ret, graph, size_mb, calls, completed,
                 failed_at>>

\* lines 56-58, get_model raises
LoadFail ==
  /\ pc = "load"
  /\ \E e \in LoadErrors : Raise("load", "load", e)
  /\ stdout' = Say("Loading")
  /\ count' = Bump(count, "load")
  /\ UNCHANGED <<run, fs, fs_at_start, wrapper_bag, real_model, wrapped_model,
                 dummy_input, z, fwd_ret, graph, size_mb, calls, completed>>

\* line 59
Select ==
  /\ pc = "select"
  /\ real_model' = first_model(wrapper_bag)
  /\ pc' = "cpu"
  /\ UNCHANGED <<run, exit, exc, fs, fs_at_start, wrapper_bag, wrapped_model,
                 dummy_input, z, fwd_ret, graph, size_mb, stdout, calls,
                 completed, failed_at, count>>

\* line 60
Cpu ==
  /\ pc = "cpu"
  /\ wrapper_bag' = [wrapper_bag EXCEPT ![real_model] = cpu(@)]
  /\ pc' = "eval"
  /\ UNCHANGED <<run, exit, exc, fs, fs_at_start, real_model, wrapped_model,
                 dummy_input, z, fwd_ret, graph, size_mb, stdout, calls,
                 completed, failed_at, count>>

\* line 61
Eval ==
  /\ pc = "eval"
  /\ wrapper_bag' = [wrapper_bag EXCEPT ![real_model] = eval(@)]
  /\ completed' = completed \cup {"load"}
  /\ pc' = "wrap"
  /\ UNCHANGED <<run, exit, exc, fs, fs_at_start, real_model, wrapped_model,
                 dummy_input, z, fwd_ret, graph, size_mb, stdout, calls,
                 failed_at, count>>

\* lines 87-88
Wrap ==
  /\ pc = "wrap"
  /\ stdout' = Say("Wrapping")
  /\ wrapped_model' = Bound(WaveformOnlyWrapper(real_model))
  /\ count' = Bump(count, "wrap")
  /\ completed' = completed \cup {"wrap"}
  /\ pc' = "export"
  /\ UNCHANGED <<run, exit, exc, fs, fs_at_start, wrapper_bag, real_model,
                 dummy_input, z, fwd_ret, graph, size_mb, calls, failed_at>>

\* lines 93-99: the dummy input is drawn, the exporter is entered and calls
\* wrapped_model(dummy_input)
Export ==
  /\ pc = "export"
  /\ \E t \in randn(1, 2, segment) : dummy_input' = Bound(t)
  /\ stdout' = Say("Exporting")
  /\ count' = Bump(count, "trace")
  /\ pc' = "fwd_spec"
  /\ UNCHANGED <<run, exit, exc, fs, fs_at_start, wrapper_bag, real_model,
                 wrapped_model, z, fwd_ret, graph, size_mb, calls, completed,
                 failed_at>>

Call(fn, a, b, raised) == [fn |-> fn, a |-> a, b |-> b, raised |-> raised]

\* line 84, _spec returns
ForwardSpecOk ==
  /\ pc = "fwd_spec"
  /\ z' = Bound(forward_z(wrapped_model[1], dummy_input[1]))
  /\ calls' = Append(calls, Call("_spec", dummy_input[1], 0, ""))
  /\ pc' = "fwd_call"
  /\ UNCHANGED <<run, exit, exc, fs, fs_at_start, wrapper_bag, real_model,
                 wrapped_model, dummy_input, fwd_ret, graph, size_mb, stdout,
                 completed, failed_at, count>>

\* line 84, _spec raises
ForwardSpecFail ==
  /\ pc = "fwd_spec"
  /\ \E e \in ForwardErrors :
       /\ calls' = Append(calls, Call("_spec", dummy_input[1], 0, e))
       /\ Raise("trace", "trace", forward_raise(e))
  /\ UNCHANGED <<run, fs, fs_at_start, wrapper_bag, real_model, wrapped_model,
                 dummy_input, z, fwd_ret, graph, size_mb, stdout, completed,
                 count>>

\* line 85, the model returns
ForwardCallOk ==
  /\ pc = "fwd_call"
  /\ fwd_ret' = Bound(forward_ret(wrapped_model[1], dummy_input[1], z[1]))
  /\ calls' = Append(calls, Call("__call__", dummy_input[1], z[1], ""))
  /\ pc' = "convert"
  /\ UNCHANGED <<run, exit, exc, fs, fs_at_start, wrapper_bag, real_model,
                 wrapped_model, dummy_input, z, graph, size_mb, stdout,
                 completed, failed_at, count>>

\* line 85, the model raises
ForwardCallFail ==
  /\ pc = "fwd_call"
  /\ \E e \in ForwardErrors :
       /\ calls' = Append(calls, Call("__call__", dummy_input[1], z[1], e))
       /\ Raise("trace", "trace", forward_raise(e))
  /\ UNCHANGED <<run, fs, fs_at_start, wrapper_bag, real_model, wrapped_model,
                 dummy_input, z, fwd_ret, graph, size_mb, stdout, completed,
                 count>>

\* lines 99-113: the exporter turns the trace into an ONNX graph
ConvertOk ==
  /\ pc = "convert"
  /\ graph' = Bound(onnx_graph(fwd_ret[1], wrapper_bag[wrapped_model[1].model]))
  /\ completed' = completed \cup {"trace"}
  /\ pc' = "write"
  /\ UNCHANGED <<run, exit, exc, fs, fs_at_start, wrapper_bag, real_model,
                 wrapped_model, dummy_input, z, fwd_ret, size_mb, stdout,
                 calls, failed_at, count>>

ConvertFail ==
  /\ pc = "convert"
  /\ \E e \in ConvertErrors : Raise("trace", "trace", e)
  /\ UNCHANGED <<run, fs, fs_at_start, wrapper_bag, real_model, wrapped_model,
                 dummy_input, z, fwd_ret, graph, size_mb, stdout, calls,
                 completed, count>>

\* lines 99-113: the exporter writes the graph to output_file
WriteOk ==
  /\ pc = "write"
  /\ fs' = [fs EXCEPT ![output_file] = Bound(File(run, graph[1], TRUE))]
  /\ count' = Bump(count, "write")
  /\ completed' = completed \cup {"write"}
  /\ pc' = "getsize"
  /\ UNCHANGED <<run, exit, exc, fs_at_start, wrapper_bag, real_model,
                 wrapped_model, dummy_input, z, fwd_ret, graph, size_mb,
                 stdout, calls, failed_at>>

\* the write fails: the path is untouched or holds a truncated file
WriteFail ==
  /\ pc = "write"
  /\ \E e \in WriteErrors : Raise("write", "write", e)
  /\ \E f \in {fs[output_file], Bound(File(run, graph[1], FALSE))} :
       fs' = [fs EXCEPT ![output_file] = f]
  /\ count' = Bump(count, "write")
  /\ UNCHANGED <<run, fs_at_start, wrapper_bag, real_model, wrapped_model,
                 dummy_input, z, fwd_ret, graph, size_mb, stdout, calls,
                 completed>>

\* lines 115-116: os.path.getsize raises when there is no file
GetSize ==
  /\ pc = "getsize"
  /\ count' = Bump(count, "report")
  /\ IF fs[output_file] = Unbound
       THEN /\ Raise("getsize", "report", "FileNotFoundError")
            /\ UNCHANGED size_mb
       ELSE /\ size_mb' = Bound(MB(fs[output_file][1].bytes))
            /\ pc' = "report"
            /\ UNCHANGED <<exit, exc, failed_at>>
  /\ UNCHANGED <<run, fs, fs_at_start, wrapper_bag, real_model, wrapped_model,
                 dummy_input, z, fwd_ret, graph, stdout, calls, completed>>

\* lines 117-125, and the interpreter leaves with status 0
Report ==
  /\ pc = "report"
  /\ stdout' = stdout \o <<"Export complete", "Next step">>
  /\ completed' = completed \cup {"report"}
  /\ pc' = "done"
  /\ exit' = 0
  /\ UNCHANGED <<run, exc, fs, fs_at_start, wrapper_bag, real_model,
                 wrapped_model, dummy_input, z, fwd_ret, graph, size_mb,
                 calls, failed_at, count>>

Terminal == {"done", "aborted"}

\* the script is started again: a new process, the same file system
NewRun ==
  /\ pc \in Terminal
  /\ run < MaxRuns
  /\ run' = run + 1
  /\ pc' = "load"
  /\ exit' = -1
  /\ exc' = Unbound
  /\ fs_at_start' = fs
  /\ wrapper_bag' = Unbound
  /\ real_model' = 0
  /\ wrapped_model' = Unbound
  /\ dummy_input' = Unbound
  /\ z' = Unbound
  /\ fwd_ret' = Unbound
  /\ graph' = Unbound
  /\ size_mb' = Unbound
  /\ stdout' = <<>>
  /\ calls' = <<>>
  /\ completed' = {}
  /\ failed_at' = ""
  /\ count' = NoCount
  /\ UNCHANGED fs

Step ==
  \/ LoadOk \/ LoadFail \/ Select \/ Cpu \/ Eval \/ Wrap \/ Export
  \/ ForwardSpecOk \/ ForwardSpecFail \/ ForwardCallOk \/ ForwardCallFail
  \/ ConvertOk \/ ConvertFail \/ WriteOk \/ WriteFail \/ GetSize \/ Report

Next == Step \/ NewRun

Spec == Init /\ [][Next]_vars

\* every library call returns or raises, and the interpreter runs the script on
FairSpec == Spec /\ WF_vars(Step)

\* ---- properties ---------------------------------------------------------

OutputPath == "htdemucs_6s_waveform.onnx"
Wrapped    == wrapper_bag[wrapped_model[1].model]
Printed    == { stdout[i] : i \in DOMAIN stdout }

\* C1: whenever forward has returned, its value is the wrapped model's
\* two-input call on (w, _spec(w)) for the waveform w it was given; it called
\* _spec once, on w, and then the model once, on w and that transform.
C1_WrapperIsDirectCall ==
  fwd_ret # Unbound =>
    LET w == dummy_input[1]
        t == model_spec(Wrapped, w)
    IN /\ fwd_ret[1] = model_call(Wrapped, w, t)
       /\ calls = << Call("_spec", w, 0, ""), Call("__call__", w, t, "") >>

C1_Witness ==
  /\ fwd_ret # Unbound
  /\ dummy_input[1].data = MaxWave
  /\ Len(wrapper_bag) > 1

\* C2: when get_model failed, the run is over without the exporter having
\* been entered or a file written, and the file system is as the run found it.
C2_LoadFailureWritesNothing ==
  failed_at = "load" =>
    /\ pc = "aborted"
    /\ count["trace"] = 0
    /\ count["write"] = 0
    /\ graph = Unbound
    /\ fs = fs_at_start

C2_Witness ==
  /\ failed_at = "load"
  /\ pc = "aborted"
  /\ fs[OutputPath] # Unbound
  /\ exc = Bound("UnknownModel")

Before(stage) ==
  CASE stage = "load"   -> {}
    [] stage = "wrap"   -> {"load"}
    [] stage = "trace"  -> {"load", "wrap"}
    [] stage = "write"  -> {"load", "wrap", "trace"}
    [] stage = "report" -> {"load", "wrap", "trace", "write"}

\* C4: a run that has ended has status 0 exactly when loading, wrapping,
\* tracing and writing all completed; an error ends the run at once with a
\* non-zero status, with exactly the earlier stages completed.
C4_ExitStatus ==
  /\ pc \notin Terminal => exit = -1
  /\ pc \in Terminal =>
       (exit = 0 <=> {"load", "wrap", "trace", "write"} \subseteq completed)
  /\ exit = 0 => pc = "done" /\ failed_at = "" /\ exc = Unbound
  /\ failed_at # "" =>
       /\ pc = "aborted"
       /\ exit = 1
       /\ exc # Unbound
       /\ completed = Before(failed_at)

C4_Witness ==
  /\ pc = "aborted"
  /\ failed_at = "write"
  /\ exit = 1
  /\ run > 1

\* C5: when a run has succeeded, the fixed output path holds the complete
\* file that this run wrote, whatever was there before, and no other path
\* holds a file.
C5_LastRunOverwrites ==
  pc = "done" =>
    /\ fs[OutputPath] = Bound(File(run, graph[1], TRUE))
    /\ \A p \in Paths \ {OutputPath} : fs[p] = Unbound

C5_Witness ==
  /\ pc = "done"
  /\ run = 3
  /\ fs_at_start[OutputPath] # Unbound
  /\ fs_at_start[OutputPath][1].writer = 2
  /\ fs_at_start[OutputPath][1].complete
  /\ fs_at_start[OutputPath][1].graph # fs[OutputPath][1].graph

\* C6: once the exporter has been entered, the wrapper holds models[0], and
\* that model is on the CPU and in evaluation mode.
C6_ExportSeesFirstModelInEval ==
  count["trace"] > 0 =>
    /\ wrapped_model # Unbound
    /\ wrapped_model[1].model = 1
    /\ real_model = 1
    /\ wrapper_bag[1].device = "cpu"
    /\ ~ wrapper_bag[1].training

C6_Witness ==
  /\ pc = "fwd_spec"
  /\ Len(wrapper_bag) = MaxModels
  /\ wrapper_bag[MaxModels].training

\* C7: within a run, no step changes the weights of a loaded model, the
\* wrapper holds nothing but its reference to the model, and that reference
\* stays what the constructor set.
C7_WeightsAndWrapperFrame ==
  [][ run' = run =>
        /\ wrapper_bag # Unbound =>
             /\ DOMAIN wrapper_bag' = DOMAIN wrapper_bag
             /\ \A i \in DOMAIN wrapper_bag :
                  wrapper_bag'[i].weights = wrapper_bag[i].weights
        /\ wrapped_model # Unbound => wrapped_model' = wrapped_model
        /\ wrapped_model' # Unbound =>
             /\ DOMAIN wrapped_model'[1] = {"model"}
             /\ wrapped_model'[1].model = real_model ]_vars

C7_Witness ==
  /\ pc = "done"
  /\ wrapped_model # Unbound
  /\ wrapper_bag[1].weights = MaxVersion

StraightLine ==
  /\ \A s \in Stages : count[s] <= 1
  /\ completed \in {{}, Before("wrap"), Before("trace"), Before("write"),
                    Before("report"), Stages}
  /\ \A s \in Stages : count[s] > 0 => Before(s) \subseteq completed
  /\ \A s \in Stages : s \in completed => count[s] = 1
  /\ wrapper_bag # Unbound => count["load"] = 1

\* C8: in a run every stage is entered at most once and only after the
\* stages before it completed, at most one model is loaded and one file
\* written, and every run that starts reaches done or aborted.
C8_StraightLineTerminates ==
  /\ []StraightLine
  /\ [](pc = "load" => <>(pc \in Terminal))

C8_Witness ==
  /\ pc = "done"
  /\ \A s \in Stages : count[s] = 1
  /\ run = MaxRuns

\* C9: an error raised by _spec or by the model inside forward is the last
\* thing forward did: it leaves the run as the very error raised, forward
\* returns nothing, and after a failed _spec the model is not called.
C9_ForwardPropagates ==
  \A i \in DOMAIN calls :
    calls[i].raised # "" =>
      /\ i = Len(calls)
      /\ exc = Bound(calls[i].raised)
      /\ fwd_ret = Unbound
      /\ graph = Unbound
      /\ pc = "aborted"
      /\ calls[i].fn = "_spec" =>
           /\ z = Unbound
           /\ \A j \in DOMAIN calls : calls[j].fn # "__call__"

C9_Witness ==
  /\ Len(calls) = 2
  /\ calls[2].fn = "__call__"
  /\ calls[2].raised = "RuntimeError"
  /\ pc = "aborted"

\* C10: the size is read and the completion message printed only after the
\* export of the same run wrote the file, which is then at the fixed path; a
\* run that failed printed no completion message.
C10_ReportOnlyAfterExport ==
  /\ (count["report"] > 0 \/ size_mb # Unbound \/ "Export complete" \in Printed) =>
       /\ "write" \in completed
       /\ fs[OutputPath] # Unbound
       /\ fs[OutputPath][1].writer = run
  /\ failed_at # "" =>
       /\ "Export complete" \notin Printed
       /\ "Next step" \notin Printed
       /\ size_mb = Unbound

C10_Witness ==
  /\ pc = "report"
  /\ size_mb = Bound(240)
  /\ run > 1
  /\ fs_at_start[OutputPath] = Unbound

====
